---- MODULE Spec2Model ----
(***************************************************************************)
(* The vocabulary practice apps of legoperson/beidanci:                    *)
(*   Learn_and_test_danci.py  (select / learn 5 minutes / test)   : Spec   *)
(*   vocabulary_app.py        (start / stop spelling practice)    : SpecApp*)
(*   check_spelling as a function of (current_word, input)       : SpecGrade*)
(*   the methods of VocabularyPractice, called in any order     : SpecClass*)
(*   get_word_meaning_online, called word by word              : SpecMeaning*)
(*   the study timer and the learning page, second by second     : SpecTimer*)
(*   vocabulary_app_old.py and its playback threads                : SpecOld*)
(* A Python str is modelled as a sequence of one-character strings, so     *)
(* that strip() and lower() are computed, not assumed.                     *)
(***************************************************************************)
EXTENDS Integers, Sequences, FiniteSets, TLC

VARIABLES
    words,                  \* VocabularyPractice.words
    word_meanings,          \* VocabularyPractice.word_meanings (dict)
    used_words,             \* VocabularyPractice.used_words (set)
    current_word,           \* VocabularyPractice.current_word
    vp_is_playing,          \* VocabularyPractice.is_playing
    study_words,            \* VocabularyPractice.study_words
    vp_study_mode,          \* VocabularyPractice.study_mode
    study_start_time,       \* VocabularyPractice.study_start_time
    is_playing,             \* st.session_state.is_playing
    feedback,               \* st.session_state.feedback
    correct_count,          \* st.session_state.correct_count
    total_count,            \* st.session_state.total_count
    current_word_component, \* st.session_state.current_word_component
    spell_checked,          \* st.session_state.spell_checked
    user_input_word,        \* st.session_state.user_input_word
    study_mode,             \* st.session_state.study_mode
    study_words_selected,   \* st.session_state.study_words_selected
    meanings_loaded,        \* st.session_state.meanings_loaded
    clock,                  \* a time datetime.now() has reached, in seconds
    clock_steps,            \* seconds that may pass between two readings of the clock
    start_test_shown,       \* whether the last run of the script drew "Start Test"
    countdown,              \* the "Study time remaining" the page shows
    rerun_pending,          \* the st.rerun() the last run of the learning page ended with
    temp_audio_file,        \* VocabularyPractice.temp_audio_file (vocabulary_app_old.py)
    playback,               \* the threads running speak_current_word_twice
    audio_files,            \* the temporary mp3 files: what was saved into each
    last,                   \* history: the last operation, its arguments and result
    pass_draws,             \* history: the words drawn in the current pass
    draws,                  \* history: the draws of the test session in progress
    script                  \* which of the three scripts the session runs

vars == <<words, word_meanings, used_words, current_word, vp_is_playing,
          study_words, vp_study_mode, study_start_time, is_playing, feedback,
          correct_count, total_count, current_word_component, spell_checked,
          user_input_word, study_mode, study_words_selected, meanings_loaded,
          clock, clock_steps, start_test_shown, countdown, rerun_pending,
          temp_audio_file, playback, audio_files, last, pass_draws, draws, script>>

vpVars == <<words, word_meanings, used_words, current_word, vp_is_playing,
            study_words, vp_study_mode, study_start_time>>

sessionVars == <<is_playing, feedback, correct_count, total_count,
                 current_word_component, spell_checked, user_input_word,
                 study_mode, study_words_selected, meanings_loaded>>

\* what the learning page shows besides the button
pageVars == <<countdown, rerun_pending>>

\* the audio playback of vocabulary_app_old.py
oldVars == <<temp_audio_file, playback, audio_files>>

----------------------------------------------------------------------------
(* Bounds of the model *)

\* submissions counted in one run of the model
MaxCount == 2
\* the clock is read up to this many seconds after the app started
MaxTime == 600

(* Program constants *)

\* timedelta(minutes=5), in seconds
StudySeconds == 300
\* study_start_time = None
NoTime == -1

----------------------------------------------------------------------------
(* Python values *)

Range(s) == {s[i] : i \in DOMAIN s}

Min(a, b) == IF a <= b THEN a ELSE b

\* None, kept apart from every str (a str holds one-character strings only)
None == <<"None">>

\* the empty str
EmptyStr == <<>>

\* bool(x) of a str or None
truthy(x) == x # None /\ x # EmptyStr

\* str.lower() on one character
lower_char(c) ==
    CASE c = "C" -> "c"
      [] c = "A" -> "a"
      [] c = "T" -> "t"
      [] c = "N" -> "n"
      [] OTHER -> c

\* str.lower()
lower(s) == [i \in 1..Len(s) |-> lower_char(s[i])]

Whitespace == {" "}

RECURSIVE lstrip(_)
lstrip(s) ==
    IF s # <<>> /\ Head(s) \in Whitespace THEN lstrip(Tail(s)) ELSE s

RECURSIVE rstrip(_)
rstrip(s) ==
    IF s # <<>> /\ s[Len(s)] \in Whitespace
    THEN rstrip(SubSeq(s, 1, Len(s) - 1))
    ELSE s

\* str.strip()
strip(s) == rstrip(lstrip(s))

\* the strs of the model
cat == <<"c", "a", "t">>
Cat == <<"C", "a", "t">>
dog == <<"d", "o", "g">>
sun == <<"s", "u", "n">>
nan == <<"n", "a", "n">>

----------------------------------------------------------------------------
(* The word list file: unreadable (pd.read_excel raises), or its columns,  *)
(* each the sequence of str(cell) of its cells; an empty cell reads as nan *)

File(readable, columns) == [readable |-> readable, columns |-> columns]

\* one column's words: the cells kept, stripped
column_words(column) ==
    LET kept == SelectSeq(column,
                          LAMBDA c : strip(c) # EmptyStr /\ lower(c) # nan)
    IN  [i \in 1..Len(kept) |-> strip(kept[i])]

RECURSIVE all_words(_)
all_words(columns) ==
    IF columns = <<>>
    THEN <<>>
    ELSE column_words(Head(columns)) \o all_words(Tail(columns))

\* load_words_from_excel: what it returns and what it leaves in words, used_words
load_words_from_excel(file, old_words, old_used) ==
    IF ~file.readable
    THEN [ret |-> FALSE, words |-> old_words, used_words |-> old_used]
    ELSE IF Len(file.columns) > 0
    THEN [ret |-> Len(all_words(file.columns)) > 0,
          words |-> all_words(file.columns), used_words |-> {}]
    ELSE [ret |-> FALSE, words |-> old_words, used_words |-> old_used]

----------------------------------------------------------------------------
(* The dictionary API, an outside service: what one request comes to *)

Responses == {"definition", "unavailable", "exception"}

\* what get_word_meaning_online caches on each of its three paths
Definition(word) == [kind |-> "definition", of |-> lower(word)]
FallbackUnavailable(word) == [kind |-> "api_unavailable", of |-> word]
FallbackError(word) == [kind |-> "error", of |-> word]

\* a slip: the except branch returns its placeholder without storing it
get_word_meaning_online_drops_errors(cache, word, api) ==
    IF word \in DOMAIN cache
    THEN cache
    ELSE IF api[word] = "definition"
    THEN (word :> Definition(word)) @@ cache
    ELSE IF api[word] = "unavailable"
    THEN (word :> FallbackUnavailable(word)) @@ cache
    ELSE cache

\* a slip: a cached placeholder does not count as cached, the word is
\* looked up again
get_word_meaning_online_retries(cache, word, api) ==
    IF word \in DOMAIN cache /\ cache[word].kind = "definition"
    THEN cache
    ELSE IF api[word] = "definition"
    THEN (word :> Definition(word)) @@ cache
    ELSE IF api[word] = "unavailable"
    THEN (word :> FallbackUnavailable(word)) @@ cache
    ELSE (word :> FallbackError(word)) @@ cache

\* get_word_meaning_online: the cache after the call; api[word] is the
\* outcome of the request, made only when the word is not cached
get_word_meaning_online(cache, word, api) ==
    IF word \in DOMAIN cache
    THEN cache
    ELSE IF api[word] = "definition"
    THEN (word :> Definition(word)) @@ cache
    ELSE IF api[word] = "unavailable"
    THEN (word :> FallbackUnavailable(word)) @@ cache
    ELSE (word :> FallbackError(word)) @@ cache

\* the loop of select_study_words over study_words
RECURSIVE prefetch_meanings(_, _, _)
prefetch_meanings(cache, ws, api) ==
    IF ws = <<>>
    THEN cache
    ELSE prefetch_meanings(get_word_meaning_online(cache, Head(ws), api),
                           Tail(ws), api)

\* a slip: random.choices(population, k=k), which draws with replacement
random_choices(population, k) ==
    {[i \in 1..k |-> population[p[i]]] : p \in [1..k -> 1..Len(population)]}

\* random.sample(population, k): k entries at pairwise different positions
random_sample(population, k) ==
    {[i \in 1..k |-> population[p[i]]] :
        p \in {q \in [1..k -> 1..Len(population)] :
                 \A i, j \in 1..k : i # j => q[i] # q[j]}}

\* a slip: a new selection keeps the words used in the last one
select_study_words_keeps_used(n, sample, api, ret) ==
    IF words = <<>>
    THEN /\ ret = <<>>
         /\ UNCHANGED <<study_words, used_words, word_meanings>>
    ELSE /\ sample \in random_sample(words, Min(n, Len(words)))
         /\ study_words' = sample
         /\ UNCHANGED used_words
         /\ word_meanings' = prefetch_meanings(word_meanings, sample, api)
         /\ ret = sample

\* select_study_words(n): sample is the outcome of random.sample, api the
\* outcomes of the dictionary requests; ret is the list returned
select_study_words(n, sample, api, ret) ==
    IF words = <<>>
    THEN /\ ret = <<>>
         /\ UNCHANGED <<study_words, used_words, word_meanings>>
    ELSE /\ sample \in random_sample(words, Min(n, Len(words)))
         /\ study_words' = sample
         /\ used_words' = {}
         /\ word_meanings' = prefetch_meanings(word_meanings, sample, api)
         /\ ret = sample

\* a slip: the word drawn is not added to used_words
get_random_study_word_forgets(choice, ret) ==
    IF study_words = <<>>
    THEN /\ ret = None
         /\ UNCHANGED <<used_words, current_word>>
    ELSE LET used == IF Cardinality(used_words) >= Len(study_words)
                     THEN {}
                     ELSE used_words
             unused == SelectSeq(study_words, LAMBDA w : w \notin used)
             available_words == IF unused = <<>> THEN study_words ELSE unused
         IN  /\ choice \in Range(available_words)
             /\ used_words' = used
             /\ current_word' = choice
             /\ ret = choice

\* a slip: the word is drawn from words, as get_random_word does
get_random_study_word_from_words(choice, ret) ==
    IF study_words = <<>>
    THEN /\ ret = None
         /\ UNCHANGED <<used_words, current_word>>
    ELSE LET used == IF Cardinality(used_words) >= Len(study_words)
                     THEN {}
                     ELSE used_words
             unused == SelectSeq(words, LAMBDA w : w \notin used)
             available_words == IF unused = <<>> THEN words ELSE unused
         IN  /\ choice \in Range(available_words)
             /\ used_words' = used \cup {choice}
             /\ current_word' = choice
             /\ ret = choice

\* a slip: a draw from an empty pool forgets the current word and the
\* words used
get_random_study_word_clears(choice, ret) ==
    IF study_words = <<>>
    THEN /\ ret = None
         /\ used_words' = {}
         /\ current_word' = None
    ELSE LET used == IF Cardinality(used_words) >= Len(study_words)
                     THEN {}
                     ELSE used_words
             unused == SelectSeq(study_words, LAMBDA w : w \notin used)
             available_words == IF unused = <<>> THEN study_words ELSE unused
         IN  /\ choice \in Range(available_words)
             /\ used_words' = used \cup {choice}
             /\ current_word' = choice
             /\ ret = choice

\* get_random_study_word(): choice is the outcome of random.choice,
\* ret the value returned
get_random_study_word(choice, ret) ==
    IF study_words = <<>>
    THEN /\ ret = None
         /\ UNCHANGED <<used_words, current_word>>
    ELSE LET used == IF Cardinality(used_words) >= Len(study_words)
                     THEN {}
                     ELSE used_words
             unused == SelectSeq(study_words, LAMBDA w : w \notin used)
             available_words == IF unused = <<>> THEN study_words ELSE unused
         IN  /\ choice \in Range(available_words)
             /\ used_words' = used \cup {choice}
             /\ current_word' = choice
             /\ ret = choice

\* a slip: the input is stripped and not lower-cased
check_spelling_case_sensitive(user_input) ==
    IF ~truthy(current_word)
    THEN FALSE
    ELSE strip(user_input) = lower(strip(current_word))

\* check_spelling(user_input)
check_spelling(user_input) ==
    IF ~truthy(current_word)
    THEN FALSE
    ELSE lower(strip(user_input)) = lower(strip(current_word))

\* start_study_mode() at time now
start_study_mode(now) ==
    /\ vp_study_mode' = TRUE
    /\ study_start_time' = now

\* a slip: the test opens only after more than five minutes
can_start_test_late(now) ==
    IF study_start_time = NoTime
    THEN FALSE
    ELSE now - study_start_time > StudySeconds

\* a slip: the study time is not compared with the five minutes
can_start_test_unchecked(now) ==
    study_start_time # NoTime

\* can_start_test() at time now
can_start_test(now) ==
    IF study_start_time = NoTime
    THEN FALSE
    ELSE now - study_start_time >= StudySeconds

\* get_text_to_speech_html(text): the component that speaks text twice
get_text_to_speech_html(text) == [speak |-> text]

----------------------------------------------------------------------------
(* What the session starts from and what the user and the clock supply *)

\* the word list files
Files ==
    { File(TRUE, << <<cat, dog, sun>> >>),
      File(TRUE, << <<cat, <<" ">> \o Cat \o <<" ">> >>, <<nan, EmptyStr>> >>),
      File(TRUE, << <<cat, cat, dog>> >>),
      File(TRUE, << <<nan, <<" ", " ">> >> >>),
      File(TRUE, <<>>),
      File(FALSE, <<>>) }

\* what the user types into the spelling form
Spellings ==
    { EmptyStr, <<" ">>, <<" ">> \o Cat \o <<" ">>, dog }

\* st.number_input(min_value=1, max_value=min(50, len(words))); one more
\* stands for every n above len(words) that a direct call can pass
MaxNumberInput == 50
NumberInputs == 1..Min(MaxNumberInput, Len(words) + 1)

\* seconds between two readings of datetime.now()
ClockSteps == {0, StudySeconds - 1, StudySeconds}

\* datetime.now() read at or after time t: the clock never runs backwards
NowFrom(t) == {u \in {t + d : d \in clock_steps} : u <= MaxTime}

\* datetime.now()
Now == NowFrom(clock)

\* no "Study time remaining" on the page
NoCountdown == <<>>

\* st.rerun(): none called, called at once, called after time.sleep(1)
NoRerun == "none"
RerunNow == "now"
RerunAfterSleep == "after_sleep"

NoFeedback == [kind |-> "none", spelling |-> EmptyStr, word |-> None]
CorrectFeedback == [kind |-> "correct", spelling |-> EmptyStr, word |-> None]
IncorrectFeedback(spelling, word) ==
    [kind |-> "incorrect", spelling |-> spelling, word |-> word]

NoComponent == [speak |-> None]

\* the three scripts
LearnScript == "Learn_and_test_danci.py"
AppScript == "vocabulary_app.py"
OldScript == "vocabulary_app_old.py"

Op(op, n, word, ok) == [op |-> op, n |-> n, word |-> word, ok |-> ok]

\* the pass of draws after one more draw from a pool of the given size
next_pass(size, word) ==
    IF Len(pass_draws) >= size THEN <<word>> ELSE Append(pass_draws, word)

----------------------------------------------------------------------------
(* Learn_and_test_danci.py: main() *)

\* VocabularyPractice() and the session defaults, with the word list loaded
\* and current_word as given (None after __init__)
InitScript(loaded, word, steps, name) ==
    /\ script = name
    /\ draws = 0
    /\ words = loaded.words
    /\ used_words = loaded.used_words
    /\ word_meanings = << >>
    /\ current_word = word
    /\ vp_is_playing = FALSE
    /\ study_words = <<>>
    /\ vp_study_mode = FALSE
    /\ study_start_time = NoTime
    /\ is_playing = FALSE
    /\ feedback = NoFeedback
    /\ correct_count = 0
    /\ total_count = 0
    /\ current_word_component = NoComponent
    /\ spell_checked = FALSE
    /\ user_input_word = EmptyStr
    /\ study_mode = FALSE
    /\ study_words_selected = FALSE
    /\ meanings_loaded = FALSE
    /\ clock = 0
    /\ clock_steps = steps
    /\ start_test_shown = FALSE
    /\ countdown = NoCountdown
    /\ rerun_pending = NoRerun
    /\ temp_audio_file = None
    /\ playback = <<>>
    /\ audio_files = << >>
    /\ last = Op("init", 0, None, loaded.ret)
    /\ pass_draws = <<>>

\* the same for Learn_and_test_danci.py
InitState(loaded, word, steps) == InitScript(loaded, word, steps, LearnScript)

\* the same, with the clock read at the steps of ClockSteps
InitWith(loaded, word) == InitState(loaded, word, ClockSteps)

Init ==
    \E file \in Files : InitWith(load_words_from_excel(file, <<>>, {}), None)

\* "Select Words for Study"
SelectWords ==
    /\ words # <<>>
    /\ ~study_words_selected /\ ~is_playing
    /\ \E n \in NumberInputs :
       \E sample \in random_sample(words, Min(n, Len(words))) :
       \E api \in [Range(sample) \ DOMAIN word_meanings -> Responses] :
       \E selected_words \in {<<>>, sample} :
          /\ select_study_words(n, sample, api, selected_words)
          /\ IF selected_words # <<>>
             THEN /\ study_words_selected' = TRUE
                  /\ meanings_loaded' = TRUE
                  /\ study_mode' = FALSE
             ELSE UNCHANGED <<study_words_selected, meanings_loaded, study_mode>>
          /\ last' = Op("select_study_words", n, None, selected_words # <<>>)
    /\ pass_draws' = <<>>
    /\ UNCHANGED <<words, current_word, vp_is_playing, vp_study_mode,
                   study_start_time, is_playing, feedback, correct_count,
                   total_count, current_word_component, spell_checked,
                   user_input_word, clock, clock_steps, start_test_shown,
                   pageVars, oldVars, draws, script>>

\* "Start Learning"; st.rerun() then draws the learning phase (LearnRerun)
StartLearning ==
    /\ words # <<>>
    /\ study_words_selected /\ ~study_mode /\ ~is_playing
    /\ \E now \in Now :
          /\ start_study_mode(now)
          /\ clock' = now
          /\ start_test_shown' = FALSE
          /\ countdown' = NoCountdown
          /\ rerun_pending' = RerunNow
    /\ study_mode' = TRUE
    /\ last' = Op("start_study_mode", 0, None, TRUE)
    /\ UNCHANGED <<words, word_meanings, used_words, current_word,
                   vp_is_playing, study_words, is_playing, feedback,
                   correct_count, total_count, current_word_component,
                   spell_checked, user_input_word, study_words_selected,
                   meanings_loaded, clock_steps, oldVars, pass_draws, draws, script>>

\* a slip: the countdown is drawn whatever is left of the five minutes
learning_page_counts_on(now, later) ==
    IF can_start_test(now)
    THEN /\ start_test_shown' = TRUE
         /\ countdown' = NoCountdown
         /\ rerun_pending' = NoRerun
         /\ clock' = now
    ELSE LET remaining_seconds == StudySeconds - (later - study_start_time)
         IN  /\ start_test_shown' = FALSE
             /\ clock' = later
             /\ countdown' = <<remaining_seconds \div 60,
                               remaining_seconds % 60>>
             /\ rerun_pending' = IF remaining_seconds % 10 = 0
                                 THEN RerunAfterSleep
                                 ELSE NoRerun

\* the learning page, drawn by a run of the script that reads the clock at
\* now for can_start_test() and at later for the countdown
learning_page(now, later) ==
    IF can_start_test(now)
    THEN /\ start_test_shown' = TRUE
         /\ countdown' = NoCountdown
         /\ rerun_pending' = NoRerun
         /\ clock' = now
    ELSE LET remaining_seconds == StudySeconds - (later - study_start_time)
         IN  /\ start_test_shown' = FALSE
             /\ clock' = later
             /\ IF remaining_seconds > 0
                THEN /\ countdown' = <<remaining_seconds \div 60,
                                       remaining_seconds % 60>>
                     /\ rerun_pending' = IF remaining_seconds % 10 = 0
                                         THEN RerunAfterSleep
                                         ELSE NoRerun
                ELSE /\ countdown' = NoCountdown
                     /\ rerun_pending' = RerunNow

\* a run of the script in the learning phase that reads the clock no
\* earlier than earliest: the test button or the countdown
learning_run(earliest) ==
    /\ words # <<>>
    /\ study_mode /\ ~is_playing
    /\ \E now \in {t \in Now : t >= earliest} :
       \E later \in NowFrom(now) :
          /\ learning_page(now, later)
          /\ last' = Op("learning_page", now, None, can_start_test(now))
    /\ UNCHANGED <<vpVars, sessionVars, clock_steps, oldVars, pass_draws, draws, script>>

\* a slip: every run of the learning page starts the study timer again
LearnRerun_restarts ==
    /\ words # <<>>
    /\ study_mode /\ ~is_playing
    /\ \E now \in Now :
          /\ start_study_mode(now)
          /\ clock' = now
          /\ last' = Op("learning_page", now, None, FALSE)
    /\ start_test_shown' = FALSE
    /\ countdown' = <<StudySeconds \div 60, StudySeconds % 60>>
    /\ rerun_pending' = RerunAfterSleep
    /\ UNCHANGED <<words, word_meanings, used_words, current_word,
                   vp_is_playing, study_words, sessionVars, clock_steps,
                   oldVars, pass_draws, draws, script>>

\* a run of the script in the learning phase, whatever started it
LearnRerun == learning_run(clock)

\* "Start Test"
StartTest ==
    /\ words # <<>>
    /\ study_mode /\ ~is_playing
    /\ start_test_shown
    /\ \E now \in Now :
          /\ can_start_test(now)
          /\ clock' = now
    /\ is_playing' = TRUE
    /\ \E choice \in Range(words) \cup {None} :
       \E word \in {None, choice} :
          /\ get_random_study_word(choice, word)
          /\ IF truthy(word)
             THEN /\ current_word_component' = get_text_to_speech_html(word)
                  /\ feedback' = NoFeedback
                  /\ spell_checked' = FALSE
                  /\ user_input_word' = EmptyStr
                  /\ pass_draws' = next_pass(Len(study_words), word)
                  /\ draws' = draws + 1
             ELSE UNCHANGED <<current_word_component, feedback, spell_checked,
                              user_input_word, pass_draws, draws>>
          /\ last' = Op("get_random_study_word", 0, word, truthy(word))
    /\ start_test_shown' = FALSE
    /\ countdown' = NoCountdown
    /\ rerun_pending' = NoRerun
    /\ UNCHANGED <<words, word_meanings, vp_is_playing, study_words,
                   vp_study_mode, study_start_time, correct_count, total_count,
                   study_mode, study_words_selected, meanings_loaded,
                   clock_steps, oldVars, script>>

\* a slip: "Stop Test" as the "Stop" of vocabulary_app.py, counters kept
StopTest_keeps_counts ==
    /\ words # <<>>
    /\ is_playing
    /\ is_playing' = FALSE
    /\ study_words_selected' = FALSE
    /\ study_mode' = FALSE
    /\ meanings_loaded' = FALSE
    /\ feedback' = NoFeedback
    /\ spell_checked' = FALSE
    /\ user_input_word' = EmptyStr
    /\ last' = Op("stop_test", 0, None, TRUE)
    /\ draws' = 0
    /\ UNCHANGED <<vpVars, correct_count, total_count, current_word_component,
                   clock, clock_steps, start_test_shown, pageVars, oldVars,
                   pass_draws, script>>

\* a slip: "Stop Test" leaves the session in study mode
StopTest_keeps_study_mode ==
    /\ words # <<>>
    /\ is_playing
    /\ is_playing' = FALSE
    /\ study_words_selected' = FALSE
    /\ meanings_loaded' = FALSE
    /\ correct_count' = 0
    /\ total_count' = 0
    /\ feedback' = NoFeedback
    /\ spell_checked' = FALSE
    /\ user_input_word' = EmptyStr
    /\ last' = Op("stop_test", 0, None, TRUE)
    /\ draws' = 0
    /\ UNCHANGED <<vpVars, study_mode, current_word_component, clock,
                   clock_steps, start_test_shown, pageVars, oldVars,
                   pass_draws, script>>

\* a slip: "Stop Test" resets total_count and forgets correct_count
StopTest_keeps_correct ==
    /\ words # <<>>
    /\ is_playing
    /\ is_playing' = FALSE
    /\ study_words_selected' = FALSE
    /\ study_mode' = FALSE
    /\ meanings_loaded' = FALSE
    /\ total_count' = 0
    /\ feedback' = NoFeedback
    /\ spell_checked' = FALSE
    /\ user_input_word' = EmptyStr
    /\ last' = Op("stop_test", 0, None, TRUE)
    /\ draws' = 0
    /\ UNCHANGED <<vpVars, correct_count, current_word_component, clock,
                   clock_steps, start_test_shown, pageVars, oldVars,
                   pass_draws, script>>

\* "Stop Test"
StopTest ==
    /\ words # <<>>
    /\ is_playing
    /\ is_playing' = FALSE
    /\ study_words_selected' = FALSE
    /\ study_mode' = FALSE
    /\ meanings_loaded' = FALSE
    /\ correct_count' = 0
    /\ total_count' = 0
    /\ feedback' = NoFeedback
    /\ spell_checked' = FALSE
    /\ user_input_word' = EmptyStr
    /\ last' = Op("stop_test", 0, None, TRUE)
    /\ draws' = 0
    /\ UNCHANGED <<vpVars, current_word_component, clock, clock_steps,
                   start_test_shown, pageVars, oldVars, pass_draws, script>>

\* a slip: the form of vocabulary_app.py, which grades an empty input too
SubmitSpelling_grades_empty ==
    /\ words # <<>>
    /\ is_playing
    /\ ~spell_checked
    /\ total_count < MaxCount
    /\ \E user_spelling \in Spellings :
          /\ user_input_word' = user_spelling
          /\ total_count' = total_count + 1
          /\ spell_checked' = TRUE
          /\ IF check_spelling(user_spelling)
             THEN /\ feedback' = CorrectFeedback
                  /\ correct_count' = correct_count + 1
             ELSE /\ feedback' = IncorrectFeedback(user_spelling, current_word)
                  /\ UNCHANGED correct_count
          /\ last' = Op("submit", 0, user_spelling,
                        check_spelling(user_spelling))
    /\ UNCHANGED <<vpVars, is_playing, current_word_component, study_mode,
                   study_words_selected, meanings_loaded, clock, clock_steps,
                   start_test_shown, pageVars, oldVars, pass_draws, draws, script>>

\* a slip: the form stays open after a counted submission
SubmitSpelling_keeps_form_open ==
    /\ words # <<>>
    /\ is_playing
    /\ \E user_spelling \in Spellings :
          IF user_spelling # EmptyStr
          THEN /\ total_count < MaxCount
               /\ user_input_word' = user_spelling
               /\ total_count' = total_count + 1
               /\ spell_checked' = FALSE
               /\ IF check_spelling(user_spelling)
                  THEN /\ feedback' = CorrectFeedback
                       /\ correct_count' = correct_count + 1
                  ELSE /\ feedback' = IncorrectFeedback(user_spelling, current_word)
                       /\ UNCHANGED correct_count
               /\ last' = Op("submit", 0, user_spelling,
                             check_spelling(user_spelling))
          ELSE /\ UNCHANGED <<user_input_word, total_count, spell_checked,
                              feedback, correct_count>>
               /\ last' = Op("submit", 0, user_spelling, FALSE)
    /\ UNCHANGED <<vpVars, is_playing, current_word_component, study_mode,
                   study_words_selected, meanings_loaded, clock, clock_steps,
                   start_test_shown, pageVars, oldVars, pass_draws, draws, script>>

\* "Check Spelling" on the spelling form
SubmitSpelling ==
    /\ words # <<>>
    /\ is_playing
    /\ ~spell_checked
    /\ \E user_spelling \in Spellings :
          IF user_spelling # EmptyStr
          THEN /\ total_count < MaxCount
               /\ user_input_word' = user_spelling
               /\ total_count' = total_count + 1
               /\ spell_checked' = TRUE
               /\ IF check_spelling(user_spelling)
                  THEN /\ feedback' = CorrectFeedback
                       /\ correct_count' = correct_count + 1
                  ELSE /\ feedback' = IncorrectFeedback(user_spelling, current_word)
                       /\ UNCHANGED correct_count
               /\ last' = Op("submit", 0, user_spelling,
                             check_spelling(user_spelling))
          ELSE /\ UNCHANGED <<user_input_word, total_count, spell_checked,
                              feedback, correct_count>>
               /\ last' = Op("submit", 0, user_spelling, FALSE)
    /\ UNCHANGED <<vpVars, is_playing, current_word_component, study_mode,
                   study_words_selected, meanings_loaded, clock, clock_steps,
                   start_test_shown, pageVars, oldVars, pass_draws, draws, script>>

\* "Next Word"
NextWord ==
    /\ words # <<>>
    /\ is_playing
    /\ feedback # NoFeedback
    /\ \E choice \in Range(words) \cup {None} :
       \E word \in {None, choice} :
          /\ get_random_study_word(choice, word)
          /\ IF truthy(word)
             THEN /\ current_word_component' = get_text_to_speech_html(word)
                  /\ feedback' = NoFeedback
                  /\ spell_checked' = FALSE
                  /\ user_input_word' = EmptyStr
                  /\ pass_draws' = next_pass(Len(study_words), word)
                  /\ draws' = draws + 1
             ELSE UNCHANGED <<current_word_component, feedback, spell_checked,
                              user_input_word, pass_draws, draws>>
          /\ last' = Op("get_random_study_word", 0, word, truthy(word))
    /\ UNCHANGED <<words, word_meanings, vp_is_playing, study_words,
                   vp_study_mode, study_start_time, is_playing, correct_count,
                   total_count, study_mode, study_words_selected,
                   meanings_loaded, clock, clock_steps, start_test_shown,
                   pageVars, oldVars, script>>

Next ==
    \/ SelectWords
    \/ StartLearning
    \/ LearnRerun
    \/ StartTest
    \/ StopTest
    \/ SubmitSpelling
    \/ NextWord

Spec == Init /\ [][Next]_vars

----------------------------------------------------------------------------
(* vocabulary_app.py: main() *)

\* get_random_word() of vocabulary_app.py: choice is the outcome of
\* random.choice, ret the value returned
get_random_word(choice, ret) ==
    IF words = <<>>
    THEN /\ ret = None
         /\ UNCHANGED <<used_words, current_word>>
    ELSE LET used == IF Cardinality(used_words) >= Len(words)
                     THEN {}
                     ELSE used_words
             unused == SelectSeq(words, LAMBDA w : w \notin used)
             available_words == IF unused = <<>> THEN words ELSE unused
         IN  /\ choice \in Range(available_words)
             /\ used_words' = used \cup {choice}
             /\ current_word' = choice
             /\ ret = choice

\* toggle_play()
toggle_play(ret) ==
    /\ vp_is_playing' = ~vp_is_playing
    /\ ret = vp_is_playing'

studyVars == <<word_meanings, study_words, vp_study_mode, study_start_time,
               spell_checked, user_input_word, study_mode,
               study_words_selected, meanings_loaded, clock, clock_steps,
               start_test_shown, pageVars, oldVars, pass_draws, draws, script>>

\* the "Start" / "Stop" button
AppStartStop ==
    /\ words # <<>>
    /\ \E playing \in BOOLEAN :
          /\ toggle_play(playing)
          /\ is_playing' = playing
          /\ last' = Op("toggle_play", 0, None, playing)
          /\ IF playing
             THEN \E choice \in Range(words) \cup {None} :
                  \E word \in {None, choice} :
                     /\ get_random_word(choice, word)
                     /\ IF truthy(word)
                        THEN /\ current_word_component' =
                                     get_text_to_speech_html(word)
                             /\ feedback' = NoFeedback
                        ELSE UNCHANGED <<current_word_component, feedback>>
             ELSE UNCHANGED <<used_words, current_word,
                              current_word_component, feedback>>
    /\ UNCHANGED <<words, correct_count, total_count, studyVars>>

\* "Check Spelling" on the spelling form
AppSubmit ==
    /\ words # <<>>
    /\ is_playing
    /\ total_count < MaxCount
    /\ \E user_spelling \in Spellings :
          /\ total_count' = total_count + 1
          /\ IF check_spelling(user_spelling)
             THEN /\ feedback' = CorrectFeedback
                  /\ correct_count' = correct_count + 1
             ELSE /\ feedback' = IncorrectFeedback(EmptyStr, current_word)
                  /\ UNCHANGED correct_count
          /\ last' = Op("submit", 0, user_spelling,
                        check_spelling(user_spelling))
    /\ UNCHANGED <<words, used_words, current_word, vp_is_playing, is_playing,
                   current_word_component, studyVars>>

\* "Next Word"
AppNextWord ==
    /\ words # <<>>
    /\ is_playing
    /\ feedback # NoFeedback
    /\ \E choice \in Range(words) \cup {None} :
       \E word \in {None, choice} :
          /\ get_random_word(choice, word)
          /\ IF truthy(word)
             THEN /\ current_word_component' = get_text_to_speech_html(word)
                  /\ feedback' = NoFeedback
             ELSE UNCHANGED <<current_word_component, feedback>>
          /\ last' = Op("get_random_word", 0, word, truthy(word))
    /\ UNCHANGED <<words, vp_is_playing, is_playing, correct_count,
                   total_count, studyVars>>

NextApp ==
    \/ AppStartStop
    \/ AppSubmit
    \/ AppNextWord

\* vocabulary_app.py starts as Learn_and_test_danci.py does: the word list
\* is loaded into a new VocabularyPractice
InitApp ==
    \E file \in Files :
       InitScript(load_words_from_excel(file, <<>>, {}), None, ClockSteps,
                  AppScript)

SpecApp == InitApp /\ [][NextApp]_vars

----------------------------------------------------------------------------
(* check_spelling as a function of current_word and the input *)

Apple == <<"A", "p", "p", "l", "e">>
apple == <<"a", "p", "p", "l", "e">>
Appl == <<"A", "p", "p", "l">>
CAT == <<"C", "A", "T">>

Pads == {EmptyStr, <<" ">>}

\* the cells of a word list and the inputs typed: words with and without
\* blanks around them
Padded(base) == {l \o w \o r : l \in Pads, r \in Pads, w \in base}

GradeFile == File(TRUE, << <<Apple, <<" ">> \o cat, Cat \o <<" ">>, dog>> >>)

\* current_word: None before the first draw, or a word of the loaded list;
\* the empty str is the "no current word" of the spec
GradeCurrentWords ==
    {None, EmptyStr}
        \cup Range(load_words_from_excel(GradeFile, <<>>, {}).words)

GradeInputs == Padded({EmptyStr, Apple, apple, Appl, cat, Cat, CAT, dog})

InitGrade ==
    \E word \in GradeCurrentWords :
       InitWith(load_words_from_excel(GradeFile, <<>>, {}), word)

\* one call of check_spelling(user_input)
CheckSpelling ==
    /\ \E user_input \in GradeInputs :
          last' = Op("check_spelling", 0, user_input, check_spelling(user_input))
    /\ UNCHANGED <<vpVars, sessionVars, clock, clock_steps, start_test_shown,
                   pageVars, oldVars, pass_draws, draws, script>>

NextGrade == CheckSpelling

SpecGrade == InitGrade /\ [][NextGrade]_vars

----------------------------------------------------------------------------
(* The methods of VocabularyPractice (Learn_and_test_danci.py), called in  *)
(* any order on one object                                                 *)

\* VocabularyPractice(): no list loaded yet
NothingLoaded == [ret |-> FALSE, words |-> <<>>, used_words |-> {}]

InitClass == InitWith(NothingLoaded, None)

\* the files handed to load_words_from_excel: cells around the nan filter,
\* a sheet of empty cells, a sheet without columns, an unreadable file
ClassFiles ==
    { File(TRUE, << <<cat, <<" ">> \o nan \o <<" ">>, <<"N", "a", "N">>, nan>> >>),
      File(TRUE, << <<nan, <<" ", " ">>, EmptyStr>> >>),
      File(TRUE, <<>>),
      File(FALSE, <<>>) }

\* load_words_from_excel(file_path)
ClassLoad ==
    /\ \E file \in ClassFiles :
          LET loaded == load_words_from_excel(file, words, used_words)
          IN  /\ words' = loaded.words
              /\ used_words' = loaded.used_words
              /\ last' = Op("load_words_from_excel", 0, None, loaded.ret)
    /\ UNCHANGED <<word_meanings, current_word, vp_is_playing, study_words,
                   vp_study_mode, study_start_time, sessionVars, clock,
                   clock_steps, start_test_shown, pageVars, oldVars,
                   pass_draws, draws, script>>

\* select_study_words(n)
ClassSelect ==
    /\ \E n \in NumberInputs :
       \E sample \in random_sample(words, Min(n, Len(words))) :
       \E api \in [Range(sample) \ DOMAIN word_meanings -> Responses] :
       \E selected_words \in {<<>>, sample} :
          /\ select_study_words(n, sample, api, selected_words)
          /\ last' = Op("select_study_words", n, None, selected_words # <<>>)
    /\ UNCHANGED <<words, current_word, vp_is_playing, vp_study_mode,
                   study_start_time, sessionVars, clock, clock_steps,
                   start_test_shown, pageVars, oldVars, pass_draws, draws, script>>

\* get_random_study_word()
ClassDrawStudyWord ==
    /\ \E choice \in Range(words) \cup Range(study_words) \cup {None} :
       \E word \in {None, choice} :
          /\ get_random_study_word(choice, word)
          /\ last' = Op("get_random_study_word", 0, word, truthy(word))
    /\ UNCHANGED <<words, word_meanings, vp_is_playing, study_words,
                   vp_study_mode, study_start_time, sessionVars, clock,
                   clock_steps, start_test_shown, pageVars, oldVars,
                   pass_draws, draws, script>>

\* get_random_word(), in Learn_and_test_danci.py the same code as in
\* vocabulary_app.py
ClassDrawWord ==
    /\ \E choice \in Range(words) \cup Range(study_words) \cup {None} :
       \E word \in {None, choice} :
          /\ get_random_word(choice, word)
          /\ last' = Op("get_random_word", 0, word, truthy(word))
    /\ UNCHANGED <<words, word_meanings, vp_is_playing, study_words,
                   vp_study_mode, study_start_time, sessionVars, clock,
                   clock_steps, start_test_shown, pageVars, oldVars,
                   pass_draws, draws, script>>

NextClass ==
    \/ ClassLoad
    \/ ClassSelect
    \/ ClassDrawStudyWord
    \/ ClassDrawWord

SpecClass == InitClass /\ [][NextClass]_vars

----------------------------------------------------------------------------
(* get_word_meaning_online, called word by word *)

\* what can happen to requests.get(url, timeout=5) and the parsing of its
\* response
Outcomes ==
    {"definition", "status_not_200", "no_definition", "timeout", "exception"}

\* the path of get_word_meaning_online an outcome takes: the definition is
\* returned, the code falls through to the fallback, or except catches
response_path(outcome) ==
    IF outcome = "definition"
    THEN "definition"
    ELSE IF outcome \in {"status_not_200", "no_definition"}
    THEN "unavailable"
    ELSE "exception"

\* how many requests get_word_meaning_online(word) sends
requests_sent(cache, word) == IF word \in DOMAIN cache THEN 0 ELSE 1

\* one call of get_word_meaning_online(word) for a word of the list
LookupMeaning ==
    /\ \E word \in Range(words) :
       \E outcome \in Outcomes :
          /\ word_meanings' =
                get_word_meaning_online(word_meanings, word,
                                        [w \in {word} |-> response_path(outcome)])
          /\ last' = Op("get_word_meaning_online",
                        requests_sent(word_meanings, word), word,
                        word \in DOMAIN word_meanings')
    /\ UNCHANGED <<words, used_words, current_word, vp_is_playing,
                   study_words, vp_study_mode, study_start_time, sessionVars,
                   clock, clock_steps, start_test_shown, pageVars, oldVars,
                   pass_draws, draws, script>>

NextMeaning == LookupMeaning

SpecMeaning == Init /\ [][NextMeaning]_vars

----------------------------------------------------------------------------
(* The study timer of Learn_and_test_danci.py, second by second *)

\* the clock is read up to this many seconds before the study timer starts
MaxStart == 1

\* seconds between two readings of the clock
TimerSteps == {0, 1, 10}

TimerFile == File(TRUE, << <<cat>> >>)

InitTimer ==
    InitState(load_words_from_excel(TimerFile, <<>>, {}), None, TimerSteps)

\* the run of the script that an st.rerun() of the learning page starts,
\* a second later at least when time.sleep(1) came first
AutoRerun ==
    /\ rerun_pending # NoRerun
    /\ learning_run(IF rerun_pending = RerunAfterSleep THEN clock + 1 ELSE clock)

\* one call of can_start_test() outside the learning page, which is its
\* only caller once study_mode is set
CanStartTest ==
    /\ ~study_mode
    /\ \E now \in Now :
          /\ now <= MaxStart
          /\ clock' = now
          /\ last' = Op("can_start_test", now, None, can_start_test(now))
    /\ UNCHANGED <<vpVars, sessionVars, clock_steps, start_test_shown,
                   pageVars, oldVars, pass_draws, draws, script>>

NextTimer ==
    \/ SelectWords
    \/ StartLearning
    \/ LearnRerun
    \/ AutoRerun
    \/ CanStartTest

SpecTimer == InitTimer /\ [][NextTimer]_vars

\* every st.rerun() the learning page asks for is executed
SpecTimerFair == SpecTimer /\ WF_vars(AutoRerun)

----------------------------------------------------------------------------
(* vocabulary_app_old.py: main() and the playback threads it starts *)

\* playback threads started in one run of the model
MaxThreads == 2

\* load_words_from_excel of vocabulary_app_old.py: the first column, every
\* cell that is not blank
load_words_from_excel_old(file, old_words, old_used) ==
    IF ~file.readable
    THEN [ret |-> FALSE, words |-> old_words, used_words |-> old_used]
    ELSE IF Len(file.columns) > 0
    THEN LET kept == SelectSeq(file.columns[1],
                               LAMBDA c : strip(c) # EmptyStr)
             first == [i \in 1..Len(kept) |-> strip(kept[i])]
         IN  [ret |-> Len(first) > 0, words |-> first, used_words |-> {}]
    ELSE [ret |-> FALSE, words |-> old_words, used_words |-> old_used]

\* the files uploaded
OldFiles ==
    { File(TRUE, << <<cat, dog>> >>),
      File(FALSE, <<>>) }

InitOld == InitScript(NothingLoaded, None, ClockSteps, OldScript)

\* threading.Thread(target=speak_current_word_twice).start(): requested is
\* the current word of the click; the thread is about to call speak_word
\* for the first time
started(requested) ==
    [pc |-> "create", round |-> 1, requested |-> requested, word |-> None,
     spoken |-> <<>>, files |-> {}]

\* "Load Words"
OldLoad ==
    /\ \E file \in OldFiles :
          LET loaded == load_words_from_excel_old(file, words, used_words)
          IN  /\ words' = loaded.words
              /\ used_words' = loaded.used_words
              /\ last' = Op("load_words_from_excel", 0, None, loaded.ret)
    /\ UNCHANGED <<current_word, vp_is_playing, is_playing, feedback,
                   correct_count, total_count, current_word_component,
                   studyVars>>

\* the "Start" / "Stop" button
OldStartStop ==
    /\ words # <<>>
    /\ \E playing \in BOOLEAN :
          /\ toggle_play(playing)
          /\ is_playing' = playing
          /\ last' = Op("toggle_play", 0, None, playing)
          /\ IF playing
             THEN \E choice \in Range(words) \cup {None} :
                  \E word \in {None, choice} :
                     /\ get_random_word(choice, word)
                     /\ IF truthy(word)
                        THEN /\ Len(playback) < MaxThreads
                             /\ playback' = Append(playback, started(word))
                             /\ feedback' = NoFeedback
                        ELSE UNCHANGED <<playback, feedback>>
             ELSE UNCHANGED <<used_words, current_word, playback, feedback>>
    /\ UNCHANGED <<words, correct_count, total_count, current_word_component,
                   word_meanings, study_words, vp_study_mode, study_start_time,
                   spell_checked, user_input_word, study_mode,
                   study_words_selected, meanings_loaded, clock, clock_steps,
                   start_test_shown, pageVars, temp_audio_file, audio_files,
                   pass_draws, draws, script>>

\* "Check Spelling" on the spelling form
OldSubmit ==
    /\ words # <<>>
    /\ is_playing
    /\ total_count < MaxCount
    /\ \E user_spelling \in Spellings :
          /\ total_count' = total_count + 1
          /\ IF check_spelling(user_spelling)
             THEN /\ feedback' = CorrectFeedback
                  /\ correct_count' = correct_count + 1
             ELSE /\ feedback' = IncorrectFeedback(EmptyStr, current_word)
                  /\ UNCHANGED correct_count
          /\ last' = Op("submit", 0, user_spelling,
                        check_spelling(user_spelling))
    /\ UNCHANGED <<words, used_words, current_word, vp_is_playing, is_playing,
                   current_word_component, studyVars>>

\* "Repeat Word"
OldRepeatWord ==
    /\ words # <<>>
    /\ is_playing
    /\ Len(playback) < MaxThreads
    /\ playback' = Append(playback, started(current_word))
    /\ last' = Op("speak_current_word_twice", 0, current_word, TRUE)
    /\ UNCHANGED <<vpVars, sessionVars, clock, clock_steps, start_test_shown,
                   pageVars, temp_audio_file, audio_files, pass_draws, draws, script>>

\* "Next Word"
OldNextWord ==
    /\ words # <<>>
    /\ is_playing
    /\ feedback # NoFeedback
    /\ \E choice \in Range(words) \cup {None} :
       \E word \in {None, choice} :
          /\ get_random_word(choice, word)
          /\ IF truthy(word)
             THEN /\ Len(playback) < MaxThreads
                  /\ playback' = Append(playback, started(word))
                  /\ feedback' = NoFeedback
             ELSE UNCHANGED <<playback, feedback>>
          /\ last' = Op("get_random_word", 0, word, truthy(word))
    /\ UNCHANGED <<words, vp_is_playing, is_playing, correct_count,
                   total_count, current_word_component, word_meanings,
                   study_words, vp_study_mode, study_start_time, spell_checked,
                   user_input_word, study_mode, study_words_selected,
                   meanings_loaded, clock, clock_steps, start_test_shown,
                   pageVars, temp_audio_file, audio_files, pass_draws, draws, script>>

\* what a step of a playback thread leaves alone
threadUnchanged == <<vpVars, sessionVars, clock, clock_steps, start_test_shown,
                     pageVars, last, pass_draws, draws, script>>

\* thread t calls speak_word(self.current_word): the argument is read and
\* the temporary file created, its name stored in self.temp_audio_file
SpeakCreate(t) ==
    /\ playback[t].pc = "create"
    /\ LET name == <<t, playback[t].round>>
       IN  /\ temp_audio_file' = name
           /\ audio_files' = (name :> EmptyStr) @@ audio_files
    /\ playback' = [playback EXCEPT ![t].pc = "save",
                                    ![t].word = current_word]
    /\ UNCHANGED threadUnchanged

\* thread t: tts.save(self.temp_audio_file)
SpeakSave(t) ==
    /\ playback[t].pc = "save"
    /\ audio_files' = [audio_files EXCEPT ![temp_audio_file] = playback[t].word]
    /\ playback' = [playback EXCEPT
                      ![t].pc = "play",
                      ![t].word = None,
                      ![t].files = playback[t].files \cup {temp_audio_file}]
    /\ UNCHANGED <<threadUnchanged, temp_audio_file>>

\* thread t: pygame.mixer.music.load(self.temp_audio_file) and play(); a
\* file nothing was saved into raises, which speak_word catches; after the
\* first speak_word comes time.sleep(0.5) and the second
SpeakPlay(t) ==
    /\ playback[t].pc = "play"
    /\ LET sound == audio_files[temp_audio_file]
           heard == IF sound = EmptyStr
                    THEN playback[t].spoken
                    ELSE Append(playback[t].spoken, sound)
       IN  playback' = [playback EXCEPT
                          ![t].pc = IF playback[t].round = 1
                                    THEN "create"
                                    ELSE "done",
                          ![t].round = 2,
                          ![t].spoken = heard,
                          ![t].files = playback[t].files \cup {temp_audio_file}]
    /\ UNCHANGED <<threadUnchanged, temp_audio_file, audio_files>>

\* a step of one of the running speak_current_word_twice threads
PlaybackStep ==
    \E t \in DOMAIN playback :
       \/ SpeakCreate(t)
       \/ SpeakSave(t)
       \/ SpeakPlay(t)

NextOld ==
    \/ OldLoad
    \/ OldStartStop
    \/ OldSubmit
    \/ OldRepeatWord
    \/ OldNextWord
    \/ PlaybackStep

SpecOld == InitOld /\ [][NextOld]_vars

----------------------------------------------------------------------------
(* The three scripts side by side: a session runs one of them *)

\* the buttons of vocabulary_app_old.py; the playback threads, which write
\* none of the session's counters, are left waiting
NextOldUI ==
    \/ OldLoad
    \/ OldStartStop
    \/ OldSubmit
    \/ OldRepeatWord
    \/ OldNextWord

InitVariants ==
    \/ Init
    \/ InitApp
    \/ InitOld

NextVariants ==
    \/ script = LearnScript /\ Next
    \/ script = AppScript /\ NextApp
    \/ script = OldScript /\ NextOldUI

SpecVariants == InitVariants /\ [][NextVariants]_vars

----------------------------------------------------------------------------
(* The claims *)

\* how often x occurs in the list s
Count(s, x) == Cardinality({i \in DOMAIN s : s[i] = x})

\* the words of the list s are pairwise distinct
Distinct(s) == \A i, j \in DOMAIN s : i # j => s[i] # s[j]

\* C1: with a pool of pairwise distinct words, the draws since the selection
\* split into passes of |pool| draws; the words of a pass are pool words and
\* no word occurs twice in a pass, so a full pass holds each pool word once
\* and a word comes again only after the pass is complete.
C1_PassDrawsEachWordOnce ==
    Distinct(study_words) =>
        /\ Len(pass_draws) <= Len(study_words)
        /\ Range(pass_draws) \subseteq Range(study_words)
        /\ Distinct(pass_draws)

\* cat/dog/sun loaded, two selected, both drawn and graded, the third draw
\* opens the second pass
C1_Witness ==
    /\ words = <<cat, dog, sun>>
    /\ Len(study_words) = 2
    /\ is_playing
    /\ total_count = 2
    /\ ~spell_checked
    /\ pass_draws = <<current_word>>

\* C2: once every distinct word of the pool is in used_words, the next
\* get_random_study_word() resets used_words before it chooses, so used_words
\* is exactly the word returned after the call.
C2_ResetWhenAllDistinctUsed ==
    [][(/\ last'.op = "get_random_study_word"
        /\ Range(study_words) \subseteq used_words)
           => used_words' = {current_word'}]_vars

\* C3: with study_words non-empty a draw succeeds: it returns a word of
\* study_words, which is current_word and is in used_words afterwards.
C3_DrawReturnsPoolWord ==
    (last.op = "get_random_study_word" /\ study_words # <<>>) =>
        /\ last.ok
        /\ last.word \in Range(study_words)
        /\ current_word = last.word
        /\ last.word \in used_words

\* the third draw from a pool of at most two words: the pool was exhausted
C3_Witness ==
    /\ last.op = "get_random_study_word"
    /\ last.ok
    /\ Len(study_words) <= 2
    /\ total_count >= 2

\* C4: after select_study_words(n), n >= 1, on a non-empty word list,
\* study_words holds min(n, |words|) entries, no word more often than words
\* holds it, and used_words is empty; with n > |words| it is a permutation
\* of words.
C4_SelectSamplesWithoutReplacement ==
    (last.op = "select_study_words" /\ words # <<>>) =>
        /\ last.ok
        /\ Len(study_words) = Min(last.n, Len(words))
        /\ \A x \in Range(study_words) :
              Count(study_words, x) <= Count(words, x)
        /\ used_words = {}
        /\ last.n > Len(words) =>
              \A x \in Range(words) : Count(study_words, x) = Count(words, x)

\* a selection of more words than there are, after a test session drew words
C4_Witness ==
    /\ last.op = "select_study_words"
    /\ last.n > Len(words)
    /\ Len(study_words) = 3
    /\ current_word # None

\* C5: check_spelling(input) is true exactly when there is a current word and
\* the input, stripped and lower-cased, equals the lower-cased current word;
\* it changes no state.
C5_CheckSpellingIsNormalisedEquality ==
    [][last'.op = "check_spelling" =>
          /\ last'.ok = (/\ truthy(current_word)
                         /\ lower(strip(last'.word)) = lower(current_word))
          /\ UNCHANGED <<vpVars, sessionVars>>]_vars

\* current word "Apple", input "apple " is correct
C5_Witness ==
    /\ last.op = "check_spelling"
    /\ current_word = Apple
    /\ last.word = apple \o <<" ">>
    /\ last.ok

\* C6: in the test phase of Learn_and_test_danci.py a submission of a
\* non-empty input adds one to total_count, and one to correct_count exactly
\* when check_spelling is true; an empty submission changes neither counter,
\* sets no feedback and leaves the form open.
C6_SubmitCounts ==
    [][last'.op = "submit" =>
          IF last'.word # EmptyStr
          THEN /\ total_count' = total_count + 1
               /\ correct_count' =
                     correct_count + (IF check_spelling(last'.word) THEN 1 ELSE 0)
          ELSE /\ UNCHANGED <<total_count, correct_count, feedback>>
               /\ ~spell_checked']_vars

\* a wrong answer, then a right one
C6_Witness ==
    /\ last.op = "submit"
    /\ last.word # EmptyStr
    /\ last.ok
    /\ correct_count = 1
    /\ total_count = 2

\* C7: while a test session runs the counters never decrease, Stop Test sets
\* both to zero, and a test session starts with both at zero.
C7_CountersMonotoneAndReset ==
    [][/\ (is_playing /\ is_playing') =>
             (correct_count' >= correct_count /\ total_count' >= total_count)
       /\ last'.op = "stop_test" => (correct_count' = 0 /\ total_count' = 0)
       /\ (~is_playing /\ is_playing') =>
             (correct_count' = 0 /\ total_count' = 0)]_vars

\* Stop Test pressed in a session in which a word was graded
C7_Witness ==
    /\ last.op = "stop_test"
    /\ Len(pass_draws) >= 2
    /\ correct_count = 0
    /\ total_count = 0

\* C8: in vocabulary_app.py Stop resets correct_count and total_count to
\* zero, and an empty submission does not increment total_count.
C8_AppStopResetsAndEmptyNotCounted ==
    [][/\ (last'.op = "toggle_play" /\ is_playing /\ ~is_playing') =>
             (correct_count' = 0 /\ total_count' = 0)
       /\ (last'.op = "submit" /\ last'.word = EmptyStr) =>
             total_count' = total_count]_vars

\* C9: in vocabulary_app.py used_words is empty at every session start, so
\* the first draw after Start leaves exactly the word drawn in used_words.
C9_AppStartDrawsFromAllWords ==
    [][(last'.op = "toggle_play" /\ ~is_playing /\ is_playing') =>
          used_words' = {current_word'}]_vars

\* C10: is_playing turns true only in a step in which study_start_time is set
\* and the clock reads at least five minutes more, and whenever is_playing is
\* true the study phase lasted at least five minutes.
C10_TestOnlyAfterStudyTime ==
    [][/\ (~is_playing /\ is_playing') =>
             /\ study_start_time # NoTime
             /\ clock' - study_start_time >= StudySeconds
       /\ is_playing' =>
             /\ study_start_time' # NoTime
             /\ clock' - study_start_time' >= StudySeconds]_vars

\* a test session started exactly five minutes after Start Learning
C10_Witness ==
    /\ is_playing
    /\ study_start_time # NoTime
    /\ clock - study_start_time = StudySeconds

\* C11: can_start_test() and the learning page find the study time over
\* exactly when start_study_mode() was called and the clock reads five minutes
\* or more after it: false up to 4:59, true from 5:00 on, false without a start.
C11_GateOpensAtFiveMinutes ==
    last.op \in {"can_start_test", "learning_page"} =>
       /\ study_start_time = NoTime => ~last.ok
       /\ (study_start_time # NoTime
              /\ last.n < study_start_time + StudySeconds) => ~last.ok
       /\ (study_start_time # NoTime
              /\ last.n >= study_start_time + StudySeconds) => last.ok

\* can_start_test() called 4:59 after start_study_mode() answered False
C11_Witness ==
    /\ last.op = "learning_page"
    /\ study_start_time # NoTime
    /\ last.n = study_start_time + StudySeconds - 1
    /\ ~last.ok

\* C12: study_start_time is written only by start_study_mode(), which runs
\* in exactly the steps that enter the learning phase and only while neither
\* the learning phase nor a test is active; once five minutes have passed
\* they have passed in every later state until the timer is started again.
C12_StudyTimerIsOneShot ==
    [][/\ study_start_time' # study_start_time =>
             last'.op = "start_study_mode"
       /\ last'.op = "start_study_mode" =>
             /\ ~study_mode /\ ~is_playing
             /\ study_mode'
             /\ study_start_time' = clock'
       /\ (~study_mode /\ study_mode') => last'.op = "start_study_mode"
       /\ (/\ study_start_time # NoTime
           /\ clock - study_start_time >= StudySeconds
           /\ last'.op # "start_study_mode") =>
             /\ study_start_time' = study_start_time
             /\ clock' - study_start_time' >= StudySeconds]_vars

\* the learning page drawn again after the five minutes were over: the test
\* can still be started
C12_Witness ==
    /\ study_mode
    /\ last.op = "learning_page"
    /\ last.ok
    /\ clock - study_start_time > StudySeconds

\* the seconds a drawn countdown stands for
countdown_seconds == countdown[1] * 60 + countdown[2]

\* C19: a countdown on the page shows minutes and seconds of the five
\* minutes less the time since the study timer started: between 00:00 and
\* 05:00, and the learning page draws none once the five minutes are over.
C19_CountdownWithinFiveMinutes ==
    /\ countdown # NoCountdown =>
          /\ countdown[1] >= 0
          /\ countdown[2] \in 0..59
          /\ countdown_seconds >= 0
          /\ countdown_seconds <= StudySeconds
    /\ (last.op = "learning_page" /\ countdown # NoCountdown) =>
          /\ countdown_seconds = StudySeconds - (clock - study_start_time)
          /\ clock - study_start_time < StudySeconds
    /\ (last.op = "learning_page"
          /\ clock - study_start_time >= StudySeconds) =>
          countdown = NoCountdown

\* the learning page drawn at the very second the five minutes ended, by a
\* run that found the test not yet due: no countdown
C19_Witness ==
    /\ last.op = "learning_page"
    /\ ~last.ok
    /\ clock - study_start_time = StudySeconds
    /\ countdown = NoCountdown

\* C20: whenever the learning page has been drawn, "Start Test" is shown at
\* some later time, provided only that every st.rerun() the page asks for is
\* executed (no click is needed).
C20_StartTestEventuallyShown ==
    (study_mode /\ last.op = "learning_page") ~> start_test_shown

\* the strings get_word_meaning_online returns
IsMeaning(m) == m.kind \in {"definition", "api_unavailable", "error"}

\* C13: every call of get_word_meaning_online(word), whatever happens to the
\* request, ends with a string stored under word; a call for a word already
\* stored sends no request and leaves the stored string, a placeholder
\* included, as it is.
C13_LookupAlwaysCachesAndNeverRetries ==
    [][last'.op = "get_word_meaning_online" =>
          /\ last'.word \in DOMAIN word_meanings'
          /\ IsMeaning(word_meanings'[last'.word])
          /\ \A w \in DOMAIN word_meanings :
                /\ w \in DOMAIN word_meanings'
                /\ word_meanings'[w] = word_meanings[w]
          /\ last'.word \in DOMAIN word_meanings =>
                /\ last'.n = 0
                /\ word_meanings' = word_meanings
          /\ last'.word \notin DOMAIN word_meanings => last'.n = 1]_vars

\* a second call for a word whose first lookup failed: the placeholder is
\* still there and no request was sent
C13_Witness ==
    /\ last.op = "get_word_meaning_online"
    /\ last.n = 0
    /\ last.word \in DOMAIN word_meanings
    /\ word_meanings[last.word].kind = "error"

\* C17: every key of word_meanings is lower-case, and no two keys differ
\* only in case (words that differ only in case share one entry and one
\* lookup).
C17_MeaningKeysLowerCase ==
    /\ \A k \in DOMAIN word_meanings : k = lower(k)
    /\ \A k1, k2 \in DOMAIN word_meanings :
          lower(k1) = lower(k2) => k1 = k2

\* C14: the list a load leaves holds no empty string and no "nan" in any
\* case (a cell is dropped when its trimmed text is empty or "nan").
C14_NoEmptyOrNanWord ==
    \A i \in DOMAIN words :
       /\ words[i] # EmptyStr
       /\ lower(words[i]) # nan

\* C15: a load that reports failure leaves words and used_words as they were.
C15_FailedLoadChangesNothing ==
    [][(last'.op = "load_words_from_excel" /\ ~last'.ok) =>
          /\ words' = words
          /\ used_words' = used_words]_vars

\* C16: get_random_study_word() on an empty study_words and
\* get_random_word() on an empty words return None and leave used_words and
\* current_word as they were; select_study_words(n) on an empty words returns
\* an empty list.
C16_EmptyPoolRefused ==
    [][/\ (last'.op = "get_random_study_word" /\ study_words = <<>>) =>
             /\ last'.word = None
             /\ ~last'.ok
             /\ used_words' = used_words
             /\ current_word' = current_word
       /\ (last'.op = "get_random_word" /\ words = <<>>) =>
             /\ last'.word = None
             /\ ~last'.ok
             /\ used_words' = used_words
             /\ current_word' = current_word
       /\ (last'.op = "select_study_words" /\ words = <<>>) =>
             ~last'.ok]_vars

\* get_random_study_word() refused on an empty study_words while a word
\* drawn from words was current and counted as used
C16_Witness ==
    /\ last.op = "get_random_study_word"
    /\ last.word = None
    /\ study_words = <<>>
    /\ current_word # None
    /\ used_words # {}

\* C18: every playback thread plays only the word that was current when it
\* was requested, twice by the time it ends, and no two playback threads
\* save into or play from the same temporary file.
C18_PlaybackIsolated ==
    /\ \A t \in DOMAIN playback :
          /\ \A i \in DOMAIN playback[t].spoken :
                playback[t].spoken[i] = playback[t].requested
          /\ playback[t].pc = "done" =>
                playback[t].spoken =
                   <<playback[t].requested, playback[t].requested>>
    /\ \A t1, t2 \in DOMAIN playback :
          t1 # t2 => playback[t1].files \cap playback[t2].files = {}

\* C21: is_playing implies study_mode, study_mode implies
\* study_words_selected, and study_words_selected implies a non-empty
\* study_words; a session leaves the test only by "Stop Test", and then all
\* three flags are false.
C21_LinearPhases ==
    /\ [](/\ is_playing => study_mode
          /\ study_mode => study_words_selected
          /\ study_words_selected => study_words # <<>>)
    /\ [][(is_playing /\ ~is_playing') =>
             /\ last'.op = "stop_test"
             /\ ~study_mode'
             /\ ~study_words_selected']_vars

\* back in the setup after a test was stopped
C21_Witness ==
    /\ last.op = "stop_test"
    /\ ~is_playing
    /\ ~study_mode
    /\ ~study_words_selected
    /\ study_words # <<>>

\* C22: during a test the counted submissions never outnumber the words
\* drawn since "Start Test", and at most one drawn word is not yet counted:
\* total_count <= draws <= total_count + 1.
C22_EachDrawGradedAtMostOnce ==
    is_playing =>
       /\ total_count <= draws
       /\ draws <= total_count + 1

\* a second word drawn after the first was graded, not graded yet
C22_Witness ==
    /\ is_playing
    /\ total_count >= 1
    /\ draws = total_count + 1

\* C24: used_words holds words of the current study_words only, so the
\* "words practiced" count is at most the size of the pool; during a test
\* the current word is a word of the current study_words and is in
\* used_words.
C24_UsedAndCurrentWithinPool ==
    /\ used_words \subseteq Range(study_words)
    /\ Cardinality(used_words) <= Len(study_words)
    /\ is_playing =>
          /\ current_word \in Range(study_words)
          /\ current_word \in used_words

\* a test of a later selection: a word of an earlier selection, whose
\* meaning is stored, is not in the pool now
C24_Witness ==
    /\ is_playing
    /\ current_word \in used_words
    /\ \E w \in DOMAIN word_meanings : w \notin Range(study_words)

\* C25: every word of study_words has an entry in word_meanings, a
\* definition or a placeholder, from its selection on; so has the current
\* word whenever the test shows feedback.
C25_StudyWordsHaveMeanings ==
    /\ \A w \in Range(study_words) :
          /\ w \in DOMAIN word_meanings
          /\ IsMeaning(word_meanings[w])
    /\ (is_playing /\ feedback # NoFeedback) =>
          current_word \in DOMAIN word_meanings

\* feedback in a test for a word whose lookup raised: the placeholder is
\* there to be shown
C25_Witness ==
    /\ is_playing
    /\ feedback # NoFeedback
    /\ current_word \in DOMAIN word_meanings
    /\ word_meanings[current_word].kind = "error"

\* C23: in each of the three scripts correct_count is never negative and
\* never more than total_count.
C23_CorrectWithinTotal ==
    /\ 0 <= correct_count
    /\ correct_count <= total_count

\* vocabulary_app_old.py after a correct and an incorrect submission
C23_Witness ==
    /\ script = OldScript
    /\ correct_count >= 1
    /\ correct_count < total_count

====
